---- MODULE Spec2Model ----
(***************************************************************************)
(* Model of the pull-through mirror job engine:                            *)
(*   registry/api/v2/mirror.go      ImageMirror (the Job)                  *)
(*   registry/proxy/proxymirror.go  MirrorController (registry, transfer   *)
(*                                  run, eviction sweep)                   *)
(* Every goroutine is a process of the model; one action is one atomic     *)
(* step of a goroutine (a critical section of c.mux, or one access to the  *)
(* unsynchronised fields of an ImageMirror).                               *)
(***************************************************************************)
EXTENDS Integers, Sequences, FiniteSets, TLC

VARIABLES
    ctxDone,  \* c.ctx has been cancelled
    remote,   \* what the remote registry serves for each key (input)
    mirrors,  \* c.mirrors: key -> job id, NoJob when the key is absent
    nJobs,    \* number of ImageMirror objects allocated so far
    jobs,     \* the ImageMirror objects
    callers,  \* request goroutines inside MirrorController.MirrorImage
    runs,     \* mirrorimages goroutines, one per claim of a job
    imgs,     \* the Image objects each run allocated (img := &Image{...})
    tasks     \* the per-blob fetch goroutines each run launched

vars == <<ctxDone, remote, mirrors, nJobs, jobs, callers, runs, imgs, tasks>>

----------------------------------------------------------------------------
(* Bounds *)

NCallers == 2          \* concurrent request goroutines
MaxJobs == 2           \* ImageMirror objects ever allocated
MaxRuns == 2           \* mirrorimages goroutines ever launched
MaxRefs == 2           \* references per manifest (transfer specification)
MaxChildren == 2       \* manifests per index (transfer specification)
CtlMaxRefs == 1        \* references per manifest (controller specification)
CtlMaxChildren == 1    \* manifests per index (controller specification)

(* Program constants *)

Retention == 1         \* 7 * 24 * time.Hour, the unit of the model's clock
now == 0               \* time.Now(): times are kept relative to the present
Success == 100
NameInvalid == 101
TagNotFound == 104
Unknown == 105
UnknownMediaType == 106
NoCode == 0            \* zero value of Code in a fresh ImageMirror

Keys == {"k1", "k2"}                 \* name + ":" + tag
Callers == 1..NCallers
JobIds == 1..MaxJobs
NoJob == 0
RunIds == JobIds \X Callers          \* the run caller c launched for job j
Digests == {"dA", "dB"}

\* d.Size of the descriptor of each digest
SizeOf(d) == IF d = "dA" THEN 1 ELSE 3

PhaseRank(p) == CASE p = "Pending" -> 0 [] p = "Mirroring" -> 1 [] p = "Mirrored" -> 2

\* the non-empty sequences over S of length at most n
SeqsUpTo(S, n) == UNION {[1..m -> S] : m \in 1..n}

\* the descriptors of manifest.References(); the digest of a reference of an
\* unrecognised media type is never read
Refs == [dgst : Digests, mediaType : {"layer"}] \cup {[dgst |-> "dA", mediaType |-> "other"]}

\* the descriptors the controller specification draws from
CtlRefs == {ref \in Refs : ref.dgst = "dA"}

\* the manifests of an index: a child of an unrecognised media type is never
\* fetched, so its references are left empty
Children(refs, maxRefs) ==
    {[known |-> TRUE, refs |-> rs] : rs \in SeqsUpTo(refs, maxRefs)}
    \cup {[known |-> FALSE, refs |-> <<>>]}

\* what a tag resolves to: nothing, a manifest, an index, or another type
RemoteEntries(refs, maxRefs, maxChildren) ==
    {[kind |-> "missing", refs |-> <<>>, children |-> <<>>],
     [kind |-> "other", refs |-> <<>>, children |-> <<>>]}
    \cup {[kind |-> "manifest", refs |-> rs, children |-> <<>>] :
             rs \in SeqsUpTo(refs, maxRefs)}
    \cup {[kind |-> "index", refs |-> <<>>, children |-> cs] :
             cs \in SeqsUpTo(Children(refs, maxRefs), maxChildren)}

----------------------------------------------------------------------------
(* Objects *)

NoBlob == [in |-> FALSE, Precent |-> 0, Size |-> 0, Error |-> FALSE]

\* &Blob{Size: d.Size, Precent: 100}
NewBlob(size) == [in |-> TRUE, Precent |-> 100, Size |-> size, Error |-> FALSE]

\* &Image{Digest: desc.Digest, Blobs: make(map[digest.Digest]*Blob)}
NewImage == [Blobs |-> [d \in Digests |-> NoBlob]]

FreeJob == [key |-> "none", CreateTime |-> 0, Phase |-> "Pending",
            Code |-> NoCode, Message |-> "", Images |-> <<>>,
            blobToImages |-> [d \in Digests |-> 0], removed |-> "no"]

\* NewImageMirror(name, tag); blobToImages[d] = 0 stands for "no entry",
\* an entry i stands for the Go index i - 1
NewImageMirror(k, t) == [FreeJob EXCEPT !.key = k, !.CreateTime = t]

\* a request goroutine: its position in MirrorImage/getim/IsPending, its ref,
\* its local im, the CreateTime of the ImageMirror it allocated; slow
\* records that its lookup under the read lock missed
IdleCaller == [pc |-> "idle", key |-> "none", im |-> NoJob, ct |-> 0, slow |-> FALSE]

NoStatus == [code |-> NoCode, msg |-> "", then |-> "done"]

\* a mirrorimages goroutine: its position, the index child it is at (0 for a
\* single manifest), the reference MirrorImage is at, the im.Images it read
\* for the append, MirrorImage's getBlobError, the UpdateStatue call it is in.
\* What the environment and the manifests did to it is recorded: envErr (a call
\* for a repository, a service or a manifest returned an error), statMiss (a
\* local Stat failed), mediaErr (MirrorImage met an unrecognised media type).
NoRun == [pc |-> "none", ci |-> 0, ri |-> 0, old |-> <<>>, getBlobError |-> FALSE,
          st |-> NoStatus, envErr |-> FALSE, statMiss |-> FALSE, mediaErr |-> FALSE]

\* a fetch goroutine of MirrorImage (lines 150-157): the image of its run it
\* was launched for, its digest, running/ok/err, the bytes received so far
NewTask(i, d) == [img |-> i, dgst |-> d, st |-> "run", recv |-> 0]

----------------------------------------------------------------------------
(* ImageMirror methods *)

\* line 120 without the division by layer.Size
PrecentNoDivide(size, total) == size * 100

\* UpdateImagePrecent line 120: int(size * 100 / layer.Size); the byte counts
\* of the model are far below the width of int64
Precent(size, total) == (size * 100) \div total

\* UpdateImagePrecent that writes the percentage without looking whether the
\* image holds the digest
UpdateImagePrecentUnchecked(im, all, dig, size) ==
    LET idx == im.blobToImages[dig] IN
    IF idx = 0 \/ idx > Len(im.Images) THEN all
    ELSE LET ref == im.Images[idx]
         IN [all EXCEPT ![ref[1]][ref[2]].Blobs[dig].Precent =
                            Precent(size, SizeOf(dig))]

\* UpdateImagePrecent(dig, size) on job im: the Image objects after the call.
\* The three error returns leave everything unchanged.
UpdateImagePrecent(im, all, dig, size) ==
    LET idx == im.blobToImages[dig] IN
    IF idx = 0 THEN all
    ELSE IF idx > Len(im.Images) THEN all
    ELSE LET ref == im.Images[idx]
             layer == all[ref[1]][ref[2]].Blobs[dig]
         IN IF ~layer.in THEN all
            ELSE [all EXCEPT ![ref[1]][ref[2]].Blobs[dig].Precent =
                                 Precent(size, layer.Size)]

\* UpdateStatue: the message stored for (code, message)
StatusMessage(code, message, old) ==
    IF message # "" THEN message
    ELSE CASE code = NameInvalid -> "repository name invalid"
           [] code = TagNotFound -> "tag not found"
           [] code = Success -> "mirror successed"
           [] OTHER -> old

\* UpdateStatue: whether the call goes on to write im.Message
WritesMessage(code, message) ==
    message # "" \/ code \in {NameInvalid, TagNotFound, Success}

\* UpdateStatue without line 104: Success never advances the phase
WritesMirroredNever(code, message) == FALSE

\* UpdateStatue: whether the call ends by writing im.Phase = Mirrored
WritesMirrored(code, message) == message = "" /\ code = Success

----------------------------------------------------------------------------
(* MirrorController: the registry and the claim *)

\* getim without the re-check of line 128: the insert of a racing miss
\* replaces the entry of the first
getimInsertAlways(m, ref, j) == [m EXCEPT ![ref] = j]

\* getim lines 127-133, under c.mux.Lock(): insert-if-absent
getimInsert(m, ref, j) == IF m[ref] = NoJob THEN [m EXCEPT ![ref] = j] ELSE m

\* the ImageMirror objects allocated so far
Allocated == 1..nJobs

\* callers that have taken getim's slow path and not yet its write lock
Waiting == {c \in Callers : callers[c].pc = "getimLock"}

\* callers inside MirrorImage, each of which may still launch a run
InCall == {c \in Callers : callers[c].pc # "idle"}

Launched == {r \in RunIds : runs[r].pc # "none"}

\* the jobs after the removal of refs from c.mirrors: removed records how a
\* job left the registry
Removed(js, m, refs, how) ==
    [j \in JobIds |-> IF \E ref \in refs : m[ref] = j
                      THEN [js[j] EXCEPT !.removed = how] ELSE js[j]]

\* MirrorImage line 108 and getim lines 121-126: the lookup under RLock and,
\* on a miss, NewImageMirror (which reads the clock). A request is served by
\* the first idle goroutine (they are interchangeable). The other guards keep
\* the number of ImageMirror objects within MaxJobs and of runs within MaxRuns.
Call(c, ref) ==
    /\ callers[c].pc = "idle"
    /\ \A b \in Callers : b < c => callers[b].pc # "idle"
    /\ mirrors[ref] # NoJob \/ nJobs + Cardinality(Waiting) < MaxJobs
    /\ Cardinality(Launched) + Cardinality(InCall) < MaxRuns
    /\ callers' = [callers EXCEPT ![c] =
           IF mirrors[ref] # NoJob
           THEN [pc |-> "IsPending", key |-> ref, im |-> mirrors[ref], ct |-> 0,
                 slow |-> FALSE]
           ELSE [pc |-> "getimLock", key |-> ref, im |-> NoJob, ct |-> now,
                 slow |-> TRUE]]
    /\ UNCHANGED <<ctxDone, remote, mirrors, nJobs, jobs, runs, imgs, tasks>>

\* getim lines 127-135: the critical section of the slow path. The object
\* allocated at line 126 becomes job nJobs + 1 if it is the one inserted and
\* is dropped otherwise.
GetimLock(c) ==
    /\ callers[c].pc = "getimLock"
    /\ LET ref == callers[c].key
           j == nJobs + 1
           m == getimInsert(mirrors, ref, j)
       IN /\ mirrors' = m
          /\ IF m[ref] = j
             THEN /\ nJobs' = j
                  /\ jobs' = [jobs EXCEPT ![j] = NewImageMirror(ref, callers[c].ct)]
             ELSE UNCHANGED <<nJobs, jobs>>
          /\ callers' = [callers EXCEPT ![c].pc = "IsPending", ![c].im = m[ref],
                                        ![c].ct = 0]
    /\ UNCHANGED <<ctxDone, remote, runs, imgs, tasks>>

\* IsPending lines 82-84: the mutex is locked and unlocked at once, so the
\* read of im.Phase is a step of its own, and so is the write that follows
IsPendingRead(c) ==
    /\ callers[c].pc = "IsPending"
    /\ callers' = [callers EXCEPT ![c] =
           IF jobs[callers[c].im].Phase = "Pending"
           THEN [callers[c] EXCEPT !.pc = "claim"]
           ELSE IdleCaller]
    /\ UNCHANGED <<ctxDone, remote, mirrors, nJobs, jobs, runs, imgs, tasks>>

StartRun == [NoRun EXCEPT !.pc = "start"]

\* IsPending lines 85-88 and MirrorImage lines 109-112: im.Phase = Mirroring,
\* return true, go c.mirrorimages(im), return im
IsPendingWrite(c) ==
    /\ callers[c].pc = "claim"
    /\ LET j == callers[c].im IN
       /\ jobs' = [jobs EXCEPT ![j].Phase = "Mirroring"]
       /\ runs' = [runs EXCEPT ![<<j, c>>] = StartRun]
    /\ callers' = [callers EXCEPT ![c] = IdleCaller]
    /\ UNCHANGED <<ctxDone, remote, mirrors, nJobs, imgs, tasks>>

\* a delete that empties the map
delimAll(m, ref) == [k \in Keys |-> NoJob]

\* delim lines 139-141, under c.mux.Lock(): delete(c.mirrors, ref), which does
\* nothing when ref is absent
delim(m, ref) == [m EXCEPT ![ref] = NoJob]

\* DeleteMirrorImage lines 115-118
DeleteMirrorImage(ref) ==
    /\ mirrors' = delim(mirrors, ref)
    /\ jobs' = Removed(jobs, mirrors, {k \in Keys : mirrors'[k] # mirrors[k]}, "delete")
    /\ UNCHANGED <<ctxDone, remote, nJobs, callers, runs, imgs, tasks>>

\* gc line 75 without the test of im.Phase
needDeletedAnyPhase(m, js, t) ==
    {ref \in Keys : m[ref] # NoJob /\ t > js[m[ref]].CreateTime}

\* gc lines 72-78: the refs collected for deletion at cutoff t
needDeleted(m, js, t) ==
    {ref \in Keys : /\ m[ref] # NoJob
                    /\ js[m[ref]].Phase = "Mirrored"
                    /\ t > js[m[ref]].CreateTime}

\* gc lines 70-82: one tick of the ticker, under c.mux.Lock()
gc ==
    LET del == needDeleted(mirrors, jobs, now - Retention) IN
    /\ mirrors' = [ref \in Keys |-> IF ref \in del THEN NoJob ELSE mirrors[ref]]
    /\ jobs' = Removed(jobs, mirrors, del, "gc")
    /\ UNCHANGED <<ctxDone, remote, nJobs, callers, runs, imgs, tasks>>

\* the time x after one more unit has passed; a time before the cutoff stays
\* before it whatever more time passes, so times stop at one unit before it
Older(x) == IF x - 1 < now - Retention - 1 THEN now - Retention - 1 ELSE x - 1

\* time passes: every recorded time.Now() is one unit further in the past
Tick ==
    /\ jobs' = [j \in JobIds |-> IF j <= nJobs
                                  THEN [jobs[j] EXCEPT !.CreateTime = Older(@)]
                                  ELSE jobs[j]]
    /\ callers' = [c \in Callers |-> IF c \in Waiting
                                      THEN [callers[c] EXCEPT !.ct = Older(@)]
                                      ELSE callers[c]]
    /\ UNCHANGED <<ctxDone, remote, mirrors, nJobs, runs, imgs, tasks>>

\* the controller's context is cancelled from outside
Cancel ==
    /\ ~ctxDone
    /\ ctxDone' = TRUE
    /\ UNCHANGED <<remote, mirrors, nJobs, jobs, callers, runs, imgs, tasks>>

\* gc lines 83-84: the select takes the case <-c.ctx.Done(); its break leaves
\* the select only, and the for loop goes round again
gcDone ==
    /\ ctxDone
    /\ UNCHANGED vars

----------------------------------------------------------------------------
(* mirrorimages: the transfer run r = <<j, c>> of job j *)

Entry(r) == remote[jobs[r[1]].key]

\* the references of the manifest MirrorImage is working on
CurRefs(r) == IF runs[r].ci = 0 THEN Entry(r).refs
              ELSE Entry(r).children[runs[r].ci].refs

\* a call im.UpdateStatue(code, msg); then is "success" when the caller does
\* not return after it and so falls through to line 233
BeginStatus(run, code, msg, then) ==
    [run EXCEPT !.pc = "usCode", !.st = [code |-> code, msg |-> msg, then |-> then]]

\* the run reports the error a call to the environment returned, and returns
EnvFail(run, code, msg) == [BeginStatus(run, code, msg, "done") EXCEPT !.envErr = TRUE]

\* the run after UpdateStatue has returned
AfterStatus(run) ==
    IF run.st.then = "success"
    THEN BeginStatus(run, Success, "", "done")
    ELSE [run EXCEPT !.pc = "done", !.st = NoStatus]

\* UpdateStatue line 92: im.Code = code
UsCode(r) ==
    /\ runs[r].pc = "usCode"
    /\ jobs' = [jobs EXCEPT ![r[1]].Code = runs[r].st.code]
    /\ runs' = [runs EXCEPT ![r] =
           IF WritesMessage(runs[r].st.code, runs[r].st.msg)
           THEN [runs[r] EXCEPT !.pc = "usMsg"]
           ELSE AfterStatus(runs[r])]
    /\ UNCHANGED <<ctxDone, remote, mirrors, nJobs, callers, imgs, tasks>>

\* UpdateStatue lines 93-103: im.Message = ...
UsMsg(r) ==
    /\ runs[r].pc = "usMsg"
    /\ jobs' = [jobs EXCEPT ![r[1]].Message =
                    StatusMessage(runs[r].st.code, runs[r].st.msg, @)]
    /\ runs' = [runs EXCEPT ![r] =
           IF WritesMirrored(runs[r].st.code, runs[r].st.msg)
           THEN [runs[r] EXCEPT !.pc = "usPhase"]
           ELSE AfterStatus(runs[r])]
    /\ UNCHANGED <<ctxDone, remote, mirrors, nJobs, callers, imgs, tasks>>

\* UpdateStatue line 104: im.Phase = Mirrored
UsPhase(r) ==
    /\ runs[r].pc = "usPhase"
    /\ jobs' = [jobs EXCEPT ![r[1]].Phase = "Mirrored"]
    /\ runs' = [runs EXCEPT ![r] = AfterStatus(runs[r])]
    /\ UNCHANGED <<ctxDone, remote, mirrors, nJobs, callers, imgs, tasks>>

\* mirrorimages lines 205-217, 223-227, 233: the head of the loop over the
\* index at child i: the switch on the child's media type and
\* manifestService.Get, whose outcome is the environment's. The runs it may
\* lead to.
LoopHead(run, cs, i) ==
    IF i > Len(cs) THEN {BeginStatus(run, Success, "", "done")}
    ELSE IF ~cs[i].known
    THEN {BeginStatus(run, UnknownMediaType, "unknown mediatype", "done")}
    ELSE {EnvFail(run, Unknown, "get manifests error"),
          [run EXCEPT !.pc = "append", !.ci = i]}

\* mirrorimages without the test of err at line 186: the run goes on to the
\* manifest whatever Tags().Get returned
ResolveNoTagCheck(run, e) ==
    {EnvFail(run, NameInvalid, "get registry repository error"),
     EnvFail(run, Unknown, "create manifests service error"),
     EnvFail(run, Unknown, "create local manifests service error"),
     EnvFail(run, Unknown, "get manifests error")}
    \cup CASE e.kind = "manifest" -> {[run EXCEPT !.pc = "append", !.ci = 0]}
           [] e.kind = "index" -> LoopHead(run, e.children, 1)
           [] OTHER -> {BeginStatus(run, UnknownMediaType,
                                    "unknown mediatype", "done")}

\* mirrorimages lines 145-198, 203-204, 228-231: everything up to the run's
\* first access to the job. The outcomes of NewRepository, repo.Manifests,
\* localrepo.Manifests and localManifestService.Get are the environment's;
\* the tag resolves to what the remote holds. The failure of
\* c.embedded.Repository (line 176) leaves localrepo nil and line 179 then
\* panics: that outcome is left out.
Resolve(run, e) ==
    {EnvFail(run, NameInvalid, "get registry repository error"),
     EnvFail(run, Unknown, "create manifests service error"),
     EnvFail(run, Unknown, "create local manifests service error")}
    \cup IF e.kind = "missing" THEN {BeginStatus(run, TagNotFound, "", "done")}
         ELSE {EnvFail(run, Unknown, "get manifests error")}
              \cup CASE e.kind = "manifest" -> {[run EXCEPT !.pc = "append", !.ci = 0]}
                     [] e.kind = "index" -> LoopHead(run, e.children, 1)
                     [] OTHER -> {BeginStatus(run, UnknownMediaType,
                                              "unknown mediatype", "done")}

RunResolve(r) ==
    /\ runs[r].pc = "start"
    /\ \E run \in Resolve(runs[r], Entry(r)) : runs' = [runs EXCEPT ![r] = run]
    /\ UNCHANGED <<ctxDone, remote, mirrors, nJobs, jobs, callers, imgs, tasks>>

----------------------------------------------------------------------------
(* ImageMirror.MirrorImage, called by run r *)

\* mirrorimages without the tests of err at lines 200 and 219: the run goes on
\* whatever MirrorImage returned
AfterMirrorImageIgnoreErr(run, err, e) ==
    IF run.ci = 0 THEN {BeginStatus(run, Success, "", "done")}
    ELSE LoopHead(run, e.children, run.ci + 1)

\* mirrorimages lines 199-202 and 218-222: what the run does with the error
\* MirrorImage returned. The single-manifest branch has no return after its
\* UpdateStatue, the index branch goes on to the next child.
AfterMirrorImage(run, err, e) ==
    IF run.ci = 0
    THEN IF err THEN {BeginStatus(run, Unknown, "mirror image blobs error", "success")}
         ELSE {BeginStatus(run, Success, "", "done")}
    ELSE IF err THEN {BeginStatus(run, Unknown, "mirror image blobs error", "done")}
         ELSE LoopHead(run, e.children, run.ci + 1)

\* MirrorImage lines 125-129, first half of the append: img is allocated and
\* im.Images is read
RunAppendRead(r) ==
    /\ runs[r].pc = "append"
    /\ imgs' = [imgs EXCEPT ![r] = Append(@, NewImage)]
    /\ runs' = [runs EXCEPT ![r].pc = "appendWrite", ![r].old = jobs[r[1]].Images]
    /\ UNCHANGED <<ctxDone, remote, mirrors, nJobs, jobs, callers, tasks>>

\* the loop over the references at reference i, or wg.Wait() after the last
AtRef(run, refs, i) ==
    [run EXCEPT !.pc = IF i > Len(refs) THEN "wait" ELSE "refs", !.ri = i]

\* MirrorImage lines 129-136: im.Images is written, the loop begins
RunAppendWrite(r) ==
    /\ runs[r].pc = "appendWrite"
    /\ jobs' = [jobs EXCEPT ![r[1]].Images = Append(runs[r].old, <<r, Len(imgs[r])>>)]
    /\ runs' = [runs EXCEPT ![r] =
           AtRef([runs[r] EXCEPT !.old = <<>>, !.getBlobError = FALSE], CurRefs(r), 1)]
    /\ UNCHANGED <<ctxDone, remote, mirrors, nJobs, callers, imgs, tasks>>

\* MirrorImage lines 144-148 without the test of line 146: every blob is
\* tracked and reset to 0, present locally or not
RegisterTracked(im, all, r, d, present) ==
    LET i == Len(all[r])
    IN [im |-> [im EXCEPT !.blobToImages[d] = Len(im.Images)],
        all |-> [all EXCEPT ![r][i].Blobs[d] = [NewBlob(SizeOf(d)) EXCEPT !.Precent = 0]]]

\* MirrorImage lines 144-148: the blob is entered at 100; when the local Stat
\* fails it is entered in blobToImages and reset to 0
Register(im, all, r, d, present) ==
    LET i == Len(all[r])
        blob == IF present THEN NewBlob(SizeOf(d))
                ELSE [NewBlob(SizeOf(d)) EXCEPT !.Precent = 0]
    IN [im |-> IF present THEN im
               ELSE [im EXCEPT !.blobToImages[d] = Len(im.Images)],
        all |-> [all EXCEPT ![r][i].Blobs[d] = blob]]

\* MirrorImage lines 137-162: one turn of the loop over the references. The
\* outcome of localrepo.Blobs(...).Stat is the environment's. A reference of
\* an unrecognised media type returns at once, without wg.Wait().
RunRef(r) ==
    /\ runs[r].pc = "refs"
    /\ LET refs == CurRefs(r)
           i == runs[r].ri
       IN IF refs[i].mediaType # "layer"
          THEN /\ \E run \in AfterMirrorImage([runs[r] EXCEPT !.mediaErr = TRUE],
                                                TRUE, Entry(r)) :
                     runs' = [runs EXCEPT ![r] = run]
               /\ UNCHANGED <<jobs, imgs, tasks>>
          ELSE \E present \in BOOLEAN :
               LET d == refs[i].dgst
                   reg == Register(jobs[r[1]], imgs, r, d, present)
               IN /\ jobs' = [jobs EXCEPT ![r[1]] = reg.im]
                  /\ imgs' = reg.all
                  /\ tasks' = IF present THEN tasks
                              ELSE [tasks EXCEPT ![r] = Append(@, NewTask(Len(imgs[r]), d))]
                  /\ runs' = [runs EXCEPT ![r] =
                         AtRef([runs[r] EXCEPT !.statMiss = @ \/ ~present], refs, i + 1)]
    /\ UNCHANGED <<ctxDone, remote, mirrors, nJobs, callers>>

\* MirrorImage lines 163-167: wg.Wait() and the return
RunWait(r) ==
    /\ runs[r].pc = "wait"
    /\ \A t \in 1..Len(tasks[r]) : tasks[r][t].st # "run"
    /\ \E run \in AfterMirrorImage(runs[r], runs[r].getBlobError, Entry(r)) :
          runs' = [runs EXCEPT ![r] = run]
    /\ UNCHANGED <<ctxDone, remote, mirrors, nJobs, jobs, callers, imgs, tasks>>

----------------------------------------------------------------------------
(* The fetch goroutine t of run r: repo.Blobs(...).Get(dgst) *)

\* The client reports the bytes received so far to the ImageMirror it was
\* given (NewRepository(..., im), line 164)
TaskProgress(r, t) ==
    /\ tasks[r][t].st = "run"
    /\ \E n \in (tasks[r][t].recv + 1)..SizeOf(tasks[r][t].dgst) :
          /\ tasks' = [tasks EXCEPT ![r][t].recv = n]
          /\ imgs' = UpdateImagePrecent(jobs[r[1]], imgs, tasks[r][t].dgst, n)
    /\ UNCHANGED <<ctxDone, remote, mirrors, nJobs, jobs, callers, runs>>

\* Get returns without error once the whole blob was received
TaskDone(r, t) ==
    /\ tasks[r][t].st = "run"
    /\ tasks[r][t].recv = SizeOf(tasks[r][t].dgst)
    /\ tasks' = [tasks EXCEPT ![r][t].st = "ok"]
    /\ UNCHANGED <<ctxDone, remote, mirrors, nJobs, jobs, callers, runs, imgs>>

\* MirrorImage lines 153-156: Get returns an error
TaskFail(r, t) ==
    /\ tasks[r][t].st = "run"
    /\ tasks' = [tasks EXCEPT ![r][t].st = "err", ![r][t].recv = 0]
    /\ imgs' = [imgs EXCEPT ![r][tasks[r][t].img].Blobs[tasks[r][t].dgst].Error = TRUE]
    /\ runs' = [runs EXCEPT ![r].getBlobError = TRUE]
    /\ UNCHANGED <<ctxDone, remote, mirrors, nJobs, jobs, callers>>

\* Any other user of the client given im (NewRepository(..., im), line 164)
\* reports n bytes received of digest d to job j
Report(j, d, n) ==
    /\ imgs' = UpdateImagePrecent(jobs[j], imgs, d, n)
    /\ UNCHANGED <<ctxDone, remote, mirrors, nJobs, jobs, callers, runs, tasks>>

----------------------------------------------------------------------------
(* Specifications *)

\* the fetch goroutines run r has launched
TasksOf(r) == 1..Len(tasks[r])

RunStep(r) ==
    \/ RunResolve(r)
    \/ RunAppendRead(r) \/ RunAppendWrite(r) \/ RunRef(r) \/ RunWait(r)
    \/ UsCode(r) \/ UsMsg(r) \/ UsPhase(r)
    \/ \E t \in TasksOf(r) : TaskProgress(r, t) \/ TaskDone(r, t) \/ TaskFail(r, t)

\* The controller: no job, every caller idle; the tags of the keys name the
\* same (small) image of the remote
Init ==
    /\ remote \in {[ref \in Keys |-> e] :
                      e \in RemoteEntries(CtlRefs, CtlMaxRefs, CtlMaxChildren)}
    /\ ctxDone = FALSE
    /\ mirrors = [ref \in Keys |-> NoJob]
    /\ nJobs = 0
    /\ jobs = [j \in JobIds |-> FreeJob]
    /\ callers = [c \in Callers |-> IdleCaller]
    /\ runs = [r \in RunIds |-> NoRun]
    /\ imgs = [r \in RunIds |-> <<>>]
    /\ tasks = [r \in RunIds |-> <<>>]

Next ==
    \/ \E c \in Callers, ref \in Keys : Call(c, ref)
    \/ \E c \in Callers : GetimLock(c) \/ IsPendingRead(c) \/ IsPendingWrite(c)
    \/ \E ref \in Keys : DeleteMirrorImage(ref)
    \/ gc
    \/ Tick
    \/ \E r \in RunIds : RunStep(r)

Spec == Init /\ [][Next]_vars

\* The controller with its context: the job of k1 has been mirrored (a
\* manifest of one blob, present locally) and the controller goes on serving
\* requests until and after its context is cancelled
InitSweep ==
    /\ ctxDone = FALSE
    /\ remote = [ref \in Keys |-> [kind |-> "manifest",
                                    refs |-> <<[dgst |-> "dA", mediaType |-> "layer"]>>,
                                    children |-> <<>>]]
    /\ mirrors = [ref \in Keys |-> IF ref = "k1" THEN 1 ELSE NoJob]
    /\ nJobs = 1
    /\ jobs = [j \in JobIds |-> IF j = 1
                  THEN [NewImageMirror("k1", 0) EXCEPT
                            !.Phase = "Mirrored", !.Code = Success,
                            !.Message = "mirror successed",
                            !.Images = << <<<<1, 1>>, 1>> >>]
                  ELSE FreeJob]
    /\ callers = [c \in Callers |-> IdleCaller]
    /\ runs = [r \in RunIds |-> IF r = <<1, 1>>
                  THEN [NoRun EXCEPT !.pc = "done", !.ri = 2] ELSE NoRun]
    /\ imgs = [r \in RunIds |-> IF r = <<1, 1>>
                  THEN <<[NewImage EXCEPT !.Blobs["dA"] = NewBlob(SizeOf("dA"))]>>
                  ELSE <<>>]
    /\ tasks = [r \in RunIds |-> <<>>]

NextSweep == Next \/ Cancel \/ gcDone

SpecSweep == InitSweep /\ [][NextSweep]_vars

\* The controller serving requests, deletes and sweeps for keys whose tags
\* name a manifest of one blob
InitDelete ==
    /\ Init
    /\ \A ref \in Keys :
           remote[ref] = [kind |-> "manifest",
                          refs |-> <<[dgst |-> "dA", mediaType |-> "layer"]>>,
                          children |-> <<>>]

SpecDelete == InitDelete /\ [][Next]_vars

\* Several runs on one job: the requests for k1, whose tag names an index of
\* MaxChildren images of one blob, have all read Phase = Pending in IsPending
InitRace ==
    /\ ctxDone = FALSE
    /\ remote = [ref \in Keys |->
           [kind |-> "index", refs |-> <<>>,
            children |-> [c \in 1..MaxChildren |->
                [known |-> TRUE, refs |-> <<[dgst |-> "dA", mediaType |-> "layer"]>>]]]]
    /\ mirrors = [ref \in Keys |-> IF ref = "k1" THEN 1 ELSE NoJob]
    /\ nJobs = 1
    /\ jobs = [j \in JobIds |-> IF j = 1 THEN NewImageMirror("k1", 0) ELSE FreeJob]
    /\ callers = [c \in Callers |->
           [pc |-> "claim", key |-> "k1", im |-> 1, ct |-> 0, slow |-> c = 1]]
    /\ runs = [r \in RunIds |-> NoRun]
    /\ imgs = [r \in RunIds |-> <<>>]
    /\ tasks = [r \in RunIds |-> <<>>]

NextRace ==
    \/ \E c \in Callers : IsPendingWrite(c)
    \/ \E r \in RunIds : RunStep(r)
    \/ \E j \in Allocated, d \in Digests : \E n \in 1..SizeOf(d) : Report(j, d, n)

SpecRace == InitRace /\ [][NextRace]_vars

\* The transfer engine alone: one request has created and claimed the job of
\* k1 and launched its run
InitTransfer ==
    /\ remote \in {[ref \in Keys |-> IF ref = "k1" THEN e
                                     ELSE [kind |-> "missing", refs |-> <<>>, children |-> <<>>]] :
                      e \in RemoteEntries(Refs, MaxRefs, MaxChildren)}
    /\ ctxDone = FALSE
    /\ mirrors = [ref \in Keys |-> IF ref = "k1" THEN 1 ELSE NoJob]
    /\ nJobs = 1
    /\ jobs = [j \in JobIds |-> IF j = 1
                  THEN [NewImageMirror("k1", 0) EXCEPT !.Phase = "Mirroring"]
                  ELSE FreeJob]
    /\ callers = [c \in Callers |-> IdleCaller]
    /\ runs = [r \in RunIds |-> IF r = <<1, 1>> THEN StartRun ELSE NoRun]
    /\ imgs = [r \in RunIds |-> <<>>]
    /\ tasks = [r \in RunIds |-> <<>>]

NextTransfer == \E r \in RunIds : RunStep(r)

SpecTransfer == InitTransfer /\ [][NextTransfer]_vars

\* The goroutines of a run are scheduled for as long as they have a step to
\* take, and every call to the remote returns
SpecTransferFair == SpecTransfer /\ WF_vars(NextTransfer)

----------------------------------------------------------------------------
(* Properties: the registry and the claim *)

\* the runs launched for job j
RunsOf(j) == {r \in Launched : r[1] = j}

\* the callers to which IsPending is about to return true for job j
Claiming(j) == {c \in Callers : callers[c].pc = "claim" /\ callers[c].im = j}

\* the callers to which getim has returned
PastGetim == {c \in Callers : callers[c].pc \in {"IsPending", "claim"}}

\* C1: for any key and any interleaving of concurrent MirrorImage calls on it,
\* IsPending returns true to exactly one caller, so that at most one
\* mirrorimages run is ever launched for a job (counting the callers that
\* have read Phase = Pending and the runs already launched).
C1_ExactlyOneRun ==
    \A j \in Allocated : Cardinality(Claiming(j)) + Cardinality(RunsOf(j)) <= 1

\* C2: the registry holds at most one job per key: the jobs that neither
\* DeleteMirrorImage nor gc removed have distinct keys and are the entries of
\* c.mirrors; and every caller to which getim has returned holds, unless its
\* job was deleted or evicted since, the entry of its key, so that concurrent
\* getim calls for one key all return the same job.
C2_OneJobPerKey ==
    /\ \A j \in Allocated : jobs[j].removed = "no" => mirrors[jobs[j].key] = j
    /\ \A ref \in Keys : mirrors[ref] # NoJob =>
           mirrors[ref] \in Allocated /\ jobs[mirrors[ref]].key = ref
    /\ \A c \in PastGetim :
           jobs[callers[c].im].removed = "no" => mirrors[callers[c].key] = callers[c].im
    /\ \A b, c \in PastGetim :
           /\ callers[b].key = callers[c].key
           /\ jobs[callers[b].im].removed = "no"
           /\ jobs[callers[c].im].removed = "no"
           => callers[b].im = callers[c].im

\* two callers whose lookups under the read lock both missed hold the same,
\* still registered job
C2_Witness ==
    \E b, c \in PastGetim :
        /\ b # c
        /\ callers[b].slow /\ callers[c].slow
        /\ callers[b].key = callers[c].key
        /\ callers[b].im = callers[c].im
        /\ jobs[callers[b].im].removed = "no"

\* C3: the phase of a job never moves backwards: every step leaves the phase
\* of every job where it is or moves it forward along Pending, Mirroring,
\* Mirrored.
C3_PhaseMonotonic ==
    [][\A j \in JobIds : PhaseRank(jobs'[j].Phase) >= PhaseRank(jobs[j].Phase)]_vars

----------------------------------------------------------------------------
(* Properties: the transfer run *)

Done == {r \in RunIds : runs[r].pc = "done"}

\* the tag resolves to a manifest or an index all of whose manifests and
\* references are of recognised media types
AllKnown(e) ==
    \/ e.kind = "manifest" /\ \A i \in 1..Len(e.refs) : e.refs[i].mediaType = "layer"
    \/ /\ e.kind = "index"
       /\ \A c \in 1..Len(e.children) :
             /\ e.children[c].known
             /\ \A i \in 1..Len(e.children[c].refs) :
                   e.children[c].refs[i].mediaType = "layer"

\* run r has returned, no call it made for a repository, a service or a
\* manifest failed, and every fetch it launched completed without error
CleanRun(r) ==
    /\ r \in Done
    /\ ~runs[r].envErr
    /\ AllKnown(Entry(r))
    /\ \A t \in TasksOf(r) : tasks[r][t].st = "ok"

\* C4: a run on a tag that resolves to a single manifest, one of whose blob
\* fetches failed, has left the job at Phase Mirroring and Code Unknown when
\* it has returned, and every failed blob carries an Error.
C4_FailedFetchStaysMirroring ==
    \A r \in Done :
        Entry(r).kind = "manifest" /\ (\E t \in TasksOf(r) : tasks[r][t].st = "err")
        => /\ jobs[r[1]].Phase = "Mirroring"
           /\ jobs[r[1]].Code = Unknown
           /\ \A t \in TasksOf(r) : tasks[r][t].st = "err" =>
                  imgs[r][tasks[r][t].img].Blobs[tasks[r][t].dgst].Error

\* C5: the run returns, and when the tag resolved, every manifest was
\* obtained, every image and reference was of a recognised type and every
\* fetch launched completed without error, it returns with the job at Phase
\* Mirrored, Code Success and the message of UpdateStatue(Success, "").
C5_CleanRunSucceeds ==
    /\ <>(<<1, 1>> \in Done)
    /\ [](\A r \in RunIds : CleanRun(r) =>
              /\ jobs[r[1]].Phase = "Mirrored"
              /\ jobs[r[1]].Code = Success
              /\ jobs[r[1]].Message = "mirror successed")

\* a run on an index of two images, with a fetch that completed, has succeeded
C5_Witness ==
    \E r \in RunIds :
        /\ CleanRun(r)
        /\ Len(imgs[r]) = 2
        /\ tasks[r] # <<>>
        /\ jobs[r[1]].Phase = "Mirrored"

\* C6: a run that met a reference of an unrecognised media type in a manifest
\* has left the job at Code UnknownMediaType when it has returned, and no
\* blob listed after that reference was registered or fetched.
C6_UnknownBlobType ==
    \A r \in Done :
        runs[r].mediaErr =>
            /\ jobs[r[1]].Code = UnknownMediaType
            /\ LET refs == CurRefs(r)
                   img == Len(imgs[r])
                   before == {refs[i].dgst : i \in 1..(runs[r].ri - 1)}
               IN \A i \in (runs[r].ri + 1)..Len(refs) :
                      refs[i].dgst \notin before =>
                          /\ ~imgs[r][img].Blobs[refs[i].dgst].in
                          /\ \A t \in TasksOf(r) :
                                 tasks[r][t].img = img => tasks[r][t].dgst # refs[i].dgst

\* the fetches run r launched for digest d of its image i
FetchesOf(r, i, d) == {t \in TasksOf(r) : tasks[r][t].img = i /\ tasks[r][t].dgst = d}

\* C7: a blob of Size > 0 that was fetched, all of whose fetches have
\* completed without error, is at Precent 100.
C7_FetchedBlobAt100 ==
    \A r \in RunIds : \A i \in 1..Len(imgs[r]) : \A d \in Digests :
        /\ FetchesOf(r, i, d) # {}
        /\ \A t \in FetchesOf(r, i, d) : tasks[r][t].st = "ok"
        /\ imgs[r][i].Blobs[d].Size > 0
        => imgs[r][i].Blobs[d].Precent = 100

C9_AllLocal ==
    \A r \in Done :
        /\ ~runs[r].envErr
        /\ AllKnown(Entry(r))
        /\ ~runs[r].statMiss
        => /\ tasks[r] = <<>>
           /\ \A d \in Digests : jobs[r[1]].blobToImages[d] = 0
           /\ \A i \in 1..Len(imgs[r]) : \A d \in Digests :
                  imgs[r][i].Blobs[d].in => imgs[r][i].Blobs[d].Precent = 100
           /\ \A i \in 1..Len(imgs[r]) : \A k \in 1..Len(Entry(r).refs) :
                  imgs[r][i].Blobs[Entry(r).refs[k].dgst].in
           /\ jobs[r[1]].Code = Success

\* a run on a manifest of two distinct blobs, both present locally, has returned
C9_Witness ==
    \E r \in Done :
        /\ Entry(r).kind = "manifest"
        /\ AllKnown(Entry(r))
        /\ ~runs[r].envErr /\ ~runs[r].statMiss
        /\ Len(imgs[r]) = 1
        /\ \A d \in Digests : imgs[r][1].Blobs[d].in

----------------------------------------------------------------------------
(* Properties: the eviction sweep *)

\* the job of ref is Mirrored and was created before the cutoff
Expired(ref) ==
    /\ mirrors[ref] # NoJob
    /\ jobs[mirrors[ref]].Phase = "Mirrored"
    /\ jobs[mirrors[ref]].CreateTime < now - Retention

\* C10: after a sweep tick of gc every job that was Mirrored and created
\* before the cutoff is absent from the registry, and every other job (newer,
\* or not Mirrored whatever its age) is still there.
C10_Sweep ==
    [][gc => \A ref \in Keys :
                 mirrors'[ref] = IF Expired(ref) THEN NoJob ELSE mirrors[ref]]_vars

\* a sweep has evicted a job, and a job at least as old that is not Mirrored
\* is still registered
C10_Witness ==
    \E j \in Allocated : \E ref \in Keys :
        /\ jobs[j].removed = "gc"
        /\ mirrors[ref] # NoJob
        /\ jobs[mirrors[ref]].Phase # "Mirrored"
        /\ jobs[mirrors[ref]].CreateTime <= jobs[j].CreateTime
        /\ jobs[mirrors[ref]].CreateTime < now - Retention

----------------------------------------------------------------------------
(* Properties: what a poller reads *)

\* the calls im.UpdateStatue(code, message) of mirrorimages
StatusCalls ==
    {<<NameInvalid, "get registry repository error">>,
     <<Unknown, "create manifests service error">>,
     <<Unknown, "create local manifests service error">>,
     <<TagNotFound, "">>,
     <<Unknown, "get manifests error">>,
     <<Unknown, "mirror image blobs error">>,
     <<UnknownMediaType, "unknown mediatype">>,
     <<Success, "">>}

\* C11: a reader of a job (GetImageMirror marshals it while the run writes it)
\* sees in every state Code = Success exactly when Phase = Mirrored, and a
\* Code and a Message written by the same UpdateStatue call (or those of a
\* fresh job).
C11_ConsistentSnapshot ==
    \A j \in Allocated :
        /\ jobs[j].Code = Success <=> jobs[j].Phase = "Mirrored"
        /\ \/ jobs[j].Code = NoCode /\ jobs[j].Message = ""
           \/ \E call \in StatusCalls :
                 /\ jobs[j].Code = call[1]
                 /\ jobs[j].Message = StatusMessage(call[1], call[2], "")

----------------------------------------------------------------------------
(* Properties: the end of the sweep *)

\* C12: once the controller's context is cancelled the sweep has stopped: no
\* step taken after the cancellation is a sweep tick that evicts a job.
C12_CancelStopsSweep == [][ctxDone => ~gc]_vars

----------------------------------------------------------------------------
(* Properties: the delete *)

\* the runs in flight
InFlight == {r \in Launched : runs[r].pc # "done"}

\* job j as a poller reads it
Visible(j) == [jobs[j] EXCEPT !.removed = "no"]

\* C13: DeleteMirrorImage removes the entry of its key whatever the phase of
\* the job, does nothing when the key is absent, leaves the entries of the
\* other keys, every job and every run as they were; and the run in flight
\* of a deleted job can take its next step, a step of a run (one that moves
\* the run or one of its fetches) changing no entry of the registry and no
\* job but its own.
C13_DeleteFrame ==
    [][/\ \A ref \in Keys : DeleteMirrorImage(ref) =>
              /\ mirrors'[ref] = NoJob
              /\ \A k \in Keys \ {ref} : mirrors'[k] = mirrors[k]
              /\ mirrors[ref] = NoJob => UNCHANGED vars
              /\ \A j \in JobIds : [jobs'[j] EXCEPT !.removed = "no"] = Visible(j)
              /\ UNCHANGED <<runs, imgs, tasks, callers, nJobs>>
       /\ \A r \in InFlight : jobs[r[1]].removed = "delete" => ENABLED RunStep(r)
       /\ \A r \in InFlight : runs'[r] # runs[r] \/ tasks'[r] # tasks[r] =>
              /\ mirrors' = mirrors
              /\ \A j \in JobIds \ {r[1]} : jobs'[j] = jobs[j]
              /\ \A q \in RunIds : q[1] # r[1] =>
                     runs'[q] = runs[q] /\ imgs'[q] = imgs[q] /\ tasks'[q] = tasks[q]
      ]_vars

\* a job was deleted while its run was in flight, its key has a new job whose
\* run has been launched, and the run of the deleted job is still in flight
C13_Witness ==
    \E r \in InFlight : \E q \in Launched :
        /\ jobs[r[1]].removed = "delete"
        /\ jobs[r[1]].Phase # "Mirrored"
        /\ q[1] # r[1]
        /\ jobs[q[1]].key = jobs[r[1]].key
        /\ mirrors[jobs[q[1]].key] = q[1]

----------------------------------------------------------------------------
(* Properties: the fetches of an image *)

\* C14: no fetch outlives the MirrorImage call that launched it: a fetch that
\* is still running belongs to the image its run is working on, and the run
\* is inside MirrorImage (in the loop over the references or at wg.Wait()).
C14_FetchesJoined ==
    \A r \in RunIds : \A t \in TasksOf(r) :
        tasks[r][t].st = "run" =>
            /\ tasks[r][t].img = Len(imgs[r])
            /\ runs[r].pc \in {"refs", "wait"}

----------------------------------------------------------------------------
(* Properties: blobToImages *)

\* C15: the entries of blobToImages are written once: no step changes the
\* entry of a digest that has one; and a step that enters a digest is a step
\* of a run of the job whose Stat of that digest has just failed (a fetch of
\* the digest is launched in the same step).
C15_WriteOnce ==
    [][\A j \in JobIds : \A d \in Digests :
          /\ jobs[j].blobToImages[d] # 0 =>
                 jobs'[j].blobToImages[d] = jobs[j].blobToImages[d]
          /\ jobs'[j].blobToImages[d] # jobs[j].blobToImages[d] =>
                 \E r \in RunIds :
                     /\ r[1] = j
                     /\ runs'[r].statMiss
                     /\ Len(tasks'[r]) = Len(tasks[r]) + 1
                     /\ tasks'[r][Len(tasks'[r])].dgst = d
      ]_vars

----------------------------------------------------------------------------
(* Properties: the run over an index *)

\* child c of index e has a reference of an unrecognised media type
BadChild(e, c) ==
    \E i \in 1..Len(e.children[c].refs) : e.children[c].refs[i].mediaType # "layer"

\* a fetch of run r has failed
FetchFailed(r) == \E t \in TasksOf(r) : tasks[r][t].st = "err"

\* C16: in a run over an index, once a child has failed the run stops: no
\* image is registered beyond a child of an unrecognised media type, beyond a
\* child with an unrecognised reference, or after an image one of whose
\* fetches failed (so no blob of a later child is fetched); and a run that
\* has returned after a failure has left the job at Phase Mirroring with Code
\* UnknownMediaType when it stopped at an unrecognised child, and a
\* non-Success code of a failure (Unknown, or NameInvalid from the set-up)
\* otherwise.
C16_IndexStopsAtFailure ==
    \A r \in Launched :
        LET e == Entry(r) IN
        e.kind = "index" =>
            /\ \A c \in 1..Len(e.children) :
                  /\ ~e.children[c].known => Len(imgs[r]) < c
                  /\ e.children[c].known /\ BadChild(e, c) => Len(imgs[r]) <= c
            /\ \A t \in TasksOf(r) :
                  /\ tasks[r][t].img <= Len(imgs[r])
                  /\ tasks[r][t].st = "err" => tasks[r][t].img = Len(imgs[r])
            /\ Len(jobs[r[1]].Images) <= Len(imgs[r])
            /\ r \in Done /\ ~CleanRun(r) =>
                  /\ jobs[r[1]].Phase = "Mirroring"
                  /\ IF ~runs[r].envErr /\ ~runs[r].mediaErr /\ ~FetchFailed(r)
                     THEN jobs[r[1]].Code = UnknownMediaType
                     ELSE jobs[r[1]].Code \in {Unknown, NameInvalid}

\* a run over an index of two images has returned after a fetch of the first
\* image failed
C16_Witness ==
    \E r \in Done :
        /\ Entry(r).kind = "index"
        /\ Len(Entry(r).children) = 2
        /\ AllKnown(Entry(r))
        /\ FetchFailed(r)
        /\ Len(imgs[r]) = 1

----------------------------------------------------------------------------
(* C17 *)

\* the three error returns of UpdateImagePrecent(d, _) on job j
NotFoundDigest(j, d) == jobs[j].blobToImages[d] = 0
IndexTooLarge(j, d) == jobs[j].blobToImages[d] > Len(jobs[j].Images)
NotFoundLayer(j, d) ==
    /\ ~NotFoundDigest(j, d)
    /\ ~IndexTooLarge(j, d)
    /\ LET ref == jobs[j].Images[jobs[j].blobToImages[d]]
       IN ~imgs[ref[1]][ref[2]].Blobs[d].in

\* this step is a call UpdateImagePrecent(d, _) on job j
ProgressCall(j, d) ==
    \/ \E n \in 1..SizeOf(d) : Report(j, d, n)
    \/ \E r \in RunsOf(j) : \E t \in TasksOf(r) :
          tasks[r][t].dgst = d /\ TaskProgress(r, t)

\* C17: a call of UpdateImagePrecent for a digest that has no blobToImages
\* entry, whose entry is not an index of Images, or whose image does not hold
\* the digest changes no Precent and nothing else of any job, and the runs go
\* on as before: no run changes its position and no fetch changes its outcome.
C17_ProgressErrorChangesNothing ==
    [][\A j \in Allocated : \A d \in Digests :
          /\ NotFoundDigest(j, d) \/ IndexTooLarge(j, d) \/ NotFoundLayer(j, d)
          /\ ProgressCall(j, d)
          => /\ imgs' = imgs
             /\ jobs' = jobs
             /\ runs' = runs
             /\ \A r \in RunIds : \A t \in TasksOf(r) :
                   /\ Len(tasks'[r]) = Len(tasks[r])
                   /\ tasks'[r][t].st = tasks[r][t].st]_vars

\* a fetch has reported its bytes while the entry of its digest was no index of
\* Images, and its own blob still stands at 0
C17_Witness ==
    \E r \in Launched : \E t \in TasksOf(r) :
        LET d == tasks[r][t].dgst IN
        /\ tasks[r][t].st = "run"
        /\ tasks[r][t].recv = SizeOf(d)
        /\ IndexTooLarge(r[1], d)
        /\ imgs[r][tasks[r][t].img].Blobs[d].Precent = 0
        /\ runs[r].pc \in {"refs", "wait"}

----------------------------------------------------------------------------
(* C18 *)

\* Tags().Get failed in run r (line 185), the set-up before it having succeeded
TagFailed(r) ==
    /\ runs[r].pc \notin {"none", "start"}
    /\ Entry(r).kind = "missing"
    /\ ~runs[r].envErr

\* C18: a run whose tag does not resolve does one status update, TagNotFound,
\* and returns: the job keeps Phase Mirroring and no image, no fetch is
\* launched, and once the run has returned the job shows Code TagNotFound with
\* Message "tag not found" for good (no Success follows).
C18_TagNotFoundStops ==
    \A r \in Launched :
        TagFailed(r) =>
            /\ runs[r].pc \in {"usCode", "usMsg", "done"}
            /\ r \notin Done =>
                  /\ runs[r].st.code = TagNotFound
                  /\ runs[r].st.then = "done"
            /\ jobs[r[1]].Phase = "Mirroring"
            /\ jobs[r[1]].Images = <<>>
            /\ imgs[r] = <<>>
            /\ tasks[r] = <<>>
            /\ jobs[r[1]].Code \in {NoCode, TagNotFound}
            /\ r \in Done =>
                  /\ jobs[r[1]].Code = TagNotFound
                  /\ jobs[r[1]].Message = "tag not found"

\* a run has returned after its tag did not resolve
C18_Witness ==
    \E r \in Done :
        /\ TagFailed(r)
        /\ jobs[r[1]].Code = TagNotFound
        /\ jobs[r[1]].Phase = "Mirroring"

----------------------------------------------------------------------------
(* C19 *)

\* the one run of job j has returned after a failure
FailedJob(j) ==
    /\ Cardinality(RunsOf(j)) = 1
    /\ \A r \in RunsOf(j) : r \in Done /\ ~CleanRun(r)

\* C19: a job whose run has failed stays the entry of its key, whatever its
\* age, unless DeleteMirrorImage removes it: the sweep never evicts it, so
\* every later request for the key finds this job.
C19_FailedJobStays ==
    \A j \in Allocated :
        FailedJob(j) /\ jobs[j].removed # "delete" =>
            /\ jobs[j].removed = "no"
            /\ mirrors[jobs[j].key] = j

----------------------------------------------------------------------------
(* C20 *)

\* C20: in every reachable state of a job, every entry of blobToImages is an
\* index of Images and the image at that index holds the digest, so that the
\* "index lager than len" and "not found image layer" returns of
\* UpdateImagePrecent are never taken.
C20_IndexValid ==
    \A j \in Allocated : \A d \in Digests :
        ~NotFoundDigest(j, d) => ~IndexTooLarge(j, d) /\ ~NotFoundLayer(j, d)

====
